---- MODULE Spec2Model ----
(***************************************************************************)
(* Session controller of the trip planner front end: the reducer           *)
(* (reducers/tripReducer.ts) and the provider that drives it               *)
(* (context/TripContext.tsx: searchTrip, clearResults, the EventSource     *)
(* handlers and the fetch fallback).                                       *)
(*                                                                         *)
(* The provider's operations are reachable by any consumer of the context  *)
(* (useTrip), so searchTrip and clearResults are enabled in every state.   *)
(* JavaScript runs handlers to completion on one thread: every action      *)
(* below is one handler (or the continuation of one await) and they        *)
(* interleave freely.  A rejected streaming promise reaches the catch      *)
(* block in the microtask that follows es.onerror, before any other        *)
(* handler can run, so OnError includes the SEARCH_ERROR dispatch.         *)
(***************************************************************************)
EXTENDS Integers, Sequences, FiniteSets, TLC

\* ----- bounds of the model -----
MaxSearches == 2   \* searchTrip calls in one behaviour
MaxEvents == 2     \* stream messages delivered in one behaviour
MaxFlights == 1    \* flight entries of an exported plan
MaxStays == 1      \* stay entries of an exported plan
MaxDays == 1       \* days of an exported plan

\* ----- values -----
NULL == "null"
NONE == "none"     \* an absent (undefined) field of a JSON object

Requests == {"r1", "r2"}

\* A parsed stream message is {stage?, result?}; "malformed" is data that
\* JSON.parse rejects.
Msg(stage, result) == [shape |-> "json", stage |-> stage, result |-> result]

Malformed == [shape |-> "malformed", stage |-> NONE, result |-> NONE]

\* TripResponse values a server can send: plan and logs.
ResultIds == {"resA", "resB"}

ResultPlan(id) == IF id = "resA" THEN "planA" ELSE "planB"

ResultLogs(id) == IF id = "resA" THEN <<>> ELSE <<Msg("Flights", NONE)>>

Messages ==
  { Malformed,
    Msg("Flights Found", NONE),
    Msg(NONE, NONE),
    Msg("result", NONE),
    Msg("complete", NONE),
    Msg("result", "resA"),
    Msg("result", "resB") }

\* Outcomes of fetch(): a response with response.ok, a response without,
\* or a rejected promise.
FetchOutcomes == {"ok", "notok", "reject"}

\* Bodies response.json() can yield for a non-2xx response: unreadable, an
\* object without detail, with an empty detail, with a detail string.
ErrorBodies == {"unreadable", NONE, "", "End date must be after start date"}

OkBodies == {"unreadable"} \cup ResultIds

StreamingConnectionError == "Streaming connection error"

GenericFailure == "Failed to generate trip plan"

FailedToFetch == "Failed to fetch"

UnreadableBody == "Unexpected end of JSON input"

VARIABLES
  state,           \* AppState held by useReducer
  hasEventSource,  \* 'EventSource' in window
  ex,              \* one record per searchTrip call, in call order
  nEvents,         \* stream messages delivered so far
  sinceClear,      \* clearResults was called and no searchTrip since
  last,            \* the handler that ran last and what it dispatched
  planOf,          \* the exchange whose result is in state.tripPlan, 0 if none
  pdf              \* the run of exportToPDF: cursor, pages, blocks drawn

vars == <<state, hasEventSource, ex, nEvents, sinceClear, last, planOf, pdf>>

ctlVars == <<state, hasEventSource, ex, nEvents, sinceClear, last, planOf>>

initialState ==
  [isLoading |-> FALSE, tripPlan |-> NULL, logs |-> <<>>, error |-> NULL,
   lastSearch |-> NULL]

\* No export has been started.
NoExport ==
  [pc |-> "idle", plan |-> <<>>, lastSearch |-> NULL, blocks |-> <<>>,
   k |-> 0, y |-> 0, pages |-> 0, out |-> <<>>, footers |-> <<>>,
   totalPages |-> 0]

\* ----- reducers/tripReducer.ts -----
ReduceSearchStart_NoLastSearch(s, request) ==
  [s EXCEPT !.isLoading = TRUE, !.error = NULL]

ReduceSearchStart(s, request) ==
  [s EXCEPT !.isLoading = TRUE, !.error = NULL, !.lastSearch = request]

ReduceSearchSuccess_DropLastSearch(s, id) ==
  [s EXCEPT !.isLoading = FALSE, !.tripPlan = ResultPlan(id),
            !.logs = ResultLogs(id), !.error = NULL, !.lastSearch = NULL]

ReduceSearchSuccess_AppendLogs(s, id) ==
  [s EXCEPT !.isLoading = FALSE, !.tripPlan = ResultPlan(id),
            !.logs = s.logs \o ResultLogs(id), !.error = NULL]

ReduceSearchSuccess(s, id) ==
  [s EXCEPT !.isLoading = FALSE, !.tripPlan = ResultPlan(id),
            !.logs = ResultLogs(id), !.error = NULL]

ReduceSearchProgress(s, payload) ==
  [s EXCEPT !.isLoading = TRUE, !.logs = Append(s.logs, payload)]

ReduceSearchError_KeepLoading(s, message) ==
  [s EXCEPT !.error = message, !.tripPlan = NULL, !.logs = <<>>]

ReduceSearchError_KeepPlan(s, message) ==
  [s EXCEPT !.isLoading = FALSE, !.error = message, !.logs = <<>>]

ReduceSearchError_KeepLogs(s, message) ==
  [s EXCEPT !.isLoading = FALSE, !.error = message, !.tripPlan = NULL]

ReduceSearchError(s, message) ==
  [s EXCEPT !.isLoading = FALSE, !.error = message, !.tripPlan = NULL,
            !.logs = <<>>]

ReduceClearResults(s) ==
  [s EXCEPT !.tripPlan = NULL, !.logs = <<>>, !.error = NULL,
            !.lastSearch = NULL]

tripReducer(s, action) ==
  CASE action.type = "SEARCH_START" -> ReduceSearchStart(s, action.payload)
    [] action.type = "SEARCH_SUCCESS" -> ReduceSearchSuccess(s, action.payload)
    [] action.type = "SEARCH_PROGRESS" -> ReduceSearchProgress(s, action.payload)
    [] action.type = "SEARCH_ERROR" -> ReduceSearchError(s, action.payload)
    [] action.type = "CLEAR_RESULTS" -> ReduceClearResults(s)
    [] OTHER -> s

Action(type, payload) == [type |-> type, payload |-> payload]

\* ----- context/TripContext.tsx -----
\* An exchange is the transport resource of one searchTrip call.
\*   pc = "open"       EventSource open, streaming promise pending
\*        "resolved"   result received, es.close() called, promise resolved
\*        "rejected"   es.onerror ran, es.close() called, promise rejected
\*        "fetching"   POST issued, fetch() pending
\*        "readingOk" / "readingErr"   response received, response.json() pending
\*        "done"       fallback exchange finished
\*   recv = the payloads this exchange dispatched as SEARCH_PROGRESS
\*   promise = the promise searchTrip returned: pending, fulfilled, rejected
\*   ok = response.ok of the fallback response ("ok" / "notok"), NONE before
\*   body = what response.json() yielded, "unread" before
\*   acts = the action types this exchange dispatched after SEARCH_START
NewExchange(request, streaming) ==
  [req |-> request,
   pc |-> IF streaming THEN "open" ELSE "fetching",
   recv |-> <<>>,
   promise |-> "pending",
   ok |-> NONE,
   body |-> "unread",
   acts |-> <<>>]

Exchanges == 1..Len(ex)

InFlight(i) == ex[i].pc \in {"open", "fetching", "readingOk", "readingErr"}

\* No stream message: the handler that ran was not es.onmessage.
NoMsg == [shape |-> "none", stage |-> NONE, result |-> NONE]

Last(kind, i, result, error) ==
  [kind |-> kind, ex |-> i, result |-> result, error |-> error, msg |-> NoMsg]

\* A thrown Error object.
Thrown(message) == [isError |-> TRUE, message |-> message]

\* error instanceof Error ? error.message : 'An unexpected error occurred'
ErrorMessage(err) ==
  IF err.isError THEN err.message ELSE "An unexpected error occurred"

\* The catch block of searchTrip: dispatch SEARCH_ERROR and return normally,
\* which fulfils the promise searchTrip returned.
Catch_Rethrow(s, err) ==
  [state |-> s, promise |-> "rejected", acts |-> <<>>]

Catch(s, err) ==
  [state |-> tripReducer(s, Action("SEARCH_ERROR", ErrorMessage(err))),
   promise |-> "fulfilled",
   acts |-> <<"SEARCH_ERROR">>]

Init ==
  /\ state = initialState
  /\ hasEventSource \in BOOLEAN
  /\ ex = <<>>
  /\ nEvents = 0
  /\ sinceClear = FALSE
  /\ last = Last("init", 0, NONE, NULL)
  /\ planOf = 0
  /\ pdf = NoExport

\* searchTrip(request) up to its first await: dispatch SEARCH_START, then
\* new EventSource(...) or fetch(...).  Nothing is done to an earlier
\* exchange.
SearchTrip(request) ==
  /\ Len(ex) < MaxSearches
  /\ state' = tripReducer(state, Action("SEARCH_START", request))
  /\ ex' = Append(ex, NewExchange(request, hasEventSource))
  /\ sinceClear' = FALSE
  /\ last' = Last("searchTrip", Len(ex) + 1, NONE, NULL)
  /\ UNCHANGED <<pdf, hasEventSource, nEvents, planOf>>

\* clearResults(): dispatch CLEAR_RESULTS, nothing else.
ClearResults ==
  /\ state' = tripReducer(state, Action("CLEAR_RESULTS", NONE))
  /\ sinceClear' = TRUE
  /\ last' = Last("clearResults", 0, NONE, NULL)
  /\ planOf' = 0
  /\ UNCHANGED <<pdf, hasEventSource, ex, nEvents>>

\* The branch es.onmessage takes for the event data m: JSON.parse throws
\* and the error is swallowed ("ignored"), or stage = payload.stage ||
\* 'progress' selects the success, the no-op or the progress branch.
Classify_DropShapeless(m) ==
  IF m.shape = "malformed" THEN "ignored"
  ELSE IF m.stage = "result" /\ m.result # NONE THEN "SEARCH_SUCCESS"
  ELSE IF m.stage \in {"complete", "result", NONE} THEN "noop"
  ELSE "SEARCH_PROGRESS"

Classify_MalformedAsProgress(m) ==
  IF m.stage = "result" /\ m.result # NONE THEN "SEARCH_SUCCESS"
  ELSE IF m.stage = "complete" THEN "noop"
  ELSE "SEARCH_PROGRESS"

Classify_CompleteAsProgress(m) ==
  IF m.shape = "malformed" THEN "ignored"
  ELSE IF m.stage = "result" /\ m.result # NONE THEN "SEARCH_SUCCESS"
  ELSE "SEARCH_PROGRESS"

Classify(m) ==
  LET stage == IF m.stage = NONE THEN "progress" ELSE m.stage IN
  IF m.shape = "malformed" THEN "ignored"
  ELSE IF stage = "result" /\ m.result # NONE THEN "SEARCH_SUCCESS"
  ELSE IF stage = "complete" THEN "noop"
  ELSE "SEARCH_PROGRESS"

\* es.onmessage for the event data m on the channel of exchange i.
OnMessage(i, m) ==
  /\ ex[i].pc = "open"
  /\ nEvents < MaxEvents
  /\ nEvents' = nEvents + 1
  /\ IF Classify(m) = "SEARCH_SUCCESS"
     THEN /\ state' = tripReducer(state, Action("SEARCH_SUCCESS", m.result))
          /\ ex' = [ex EXCEPT ![i].pc = "resolved",
                              ![i].promise = "fulfilled",
                              ![i].acts = Append(@, "SEARCH_SUCCESS")]
          /\ last' = [Last("success", i, m.result, NULL) EXCEPT !.msg = m]
          /\ planOf' = i
     ELSE IF Classify(m) = "SEARCH_PROGRESS"
     THEN /\ state' = tripReducer(state, Action("SEARCH_PROGRESS", m))
          /\ ex' = [ex EXCEPT ![i].recv = Append(@, m),
                              ![i].acts = Append(@, "SEARCH_PROGRESS")]
          /\ last' = [Last("progress", i, NONE, NULL) EXCEPT !.msg = m]
          /\ UNCHANGED planOf
     ELSE /\ last' = [Last("dropped", i, NONE, NULL) EXCEPT !.msg = m]
          /\ UNCHANGED <<state, ex, planOf>>
  /\ UNCHANGED <<pdf, hasEventSource, sinceClear>>

\* The exchange i ends in the catch block with the thrown error err.
Fail(i, err, pc) ==
  LET c == Catch(state, err) IN
  /\ state' = c.state
  /\ ex' = [ex EXCEPT ![i].pc = pc,
                      ![i].promise = c.promise,
                      ![i].acts = @ \o c.acts]
  /\ last' = Last("error", i, NONE, err.message)
  /\ planOf' = IF c.state.tripPlan = NULL THEN 0 ELSE planOf

OnError_NoClose(i) ==
  /\ ex[i].pc = "open"
  /\ Fail(i, Thrown(StreamingConnectionError), "open")
  /\ UNCHANGED <<pdf, hasEventSource, nEvents, sinceClear>>

\* es.onerror: es.close(), reject(new Error(...)); the catch block of
\* searchTrip then dispatches SEARCH_ERROR with error.message.
OnError(i) ==
  /\ ex[i].pc = "open"
  /\ Fail(i, Thrown(StreamingConnectionError), "rejected")
  /\ UNCHANGED <<pdf, hasEventSource, nEvents, sinceClear>>

\* await fetch(...) settles: a rejection goes to the catch block, a response
\* goes on to response.json().
FetchSettled(i, outcome) ==
  /\ ex[i].pc = "fetching"
  /\ IF outcome = "reject"
     THEN Fail(i, Thrown(FailedToFetch), "done")
     ELSE /\ ex' = [ex EXCEPT ![i].pc =
                      IF outcome = "ok" THEN "readingOk" ELSE "readingErr",
                              ![i].ok = outcome]
          /\ last' = Last("response", i, NONE, NULL)
          /\ UNCHANGED <<state, planOf>>
  /\ UNCHANGED <<pdf, hasEventSource, nEvents, sinceClear>>

\* errorData.detail || 'Failed to generate trip plan'
DetailOrGeneric(detail) ==
  IF detail = NONE \/ detail = "" THEN GenericFailure ELSE detail

\* await response.json() settles, for a non-2xx response: throw, caught.
ErrorBodyRead(i, body) ==
  /\ ex[i].pc = "readingErr"
  /\ LET message == IF body = "unreadable" THEN UnreadableBody
                    ELSE DetailOrGeneric(body)
         c == Catch(state, Thrown(message)) IN
     /\ state' = c.state
     /\ ex' = [ex EXCEPT ![i].pc = "done",
                         ![i].body = body,
                         ![i].promise = c.promise,
                         ![i].acts = @ \o c.acts]
     /\ last' = Last("error", i, NONE, message)
     /\ planOf' = IF c.state.tripPlan = NULL THEN 0 ELSE planOf
  /\ UNCHANGED <<pdf, hasEventSource, nEvents, sinceClear>>

\* await response.json() settles, for a 2xx response: dispatch
\* SEARCH_SUCCESS with the body; an unreadable body is caught.
OkBodyRead_SuccessThenError(i, body) ==
  /\ ex[i].pc = "readingOk"
  /\ state' = tripReducer(tripReducer(state, Action("SEARCH_SUCCESS", body)),
                          Action("SEARCH_ERROR", UnreadableBody))
  /\ ex' = [ex EXCEPT ![i].pc = "done",
                      ![i].body = body,
                      ![i].promise = "fulfilled",
                      ![i].acts = @ \o <<"SEARCH_SUCCESS", "SEARCH_ERROR">>]
  /\ last' = Last("error", i, NONE, UnreadableBody)
  /\ planOf' = 0
  /\ UNCHANGED <<pdf, hasEventSource, nEvents, sinceClear>>

OkBodyRead(i, body) ==
  /\ ex[i].pc = "readingOk"
  /\ IF body = "unreadable"
     THEN LET c == Catch(state, Thrown(UnreadableBody)) IN
          /\ state' = c.state
          /\ ex' = [ex EXCEPT ![i].pc = "done",
                              ![i].body = body,
                              ![i].promise = c.promise,
                              ![i].acts = @ \o c.acts]
          /\ last' = Last("error", i, NONE, UnreadableBody)
          /\ planOf' = IF c.state.tripPlan = NULL THEN 0 ELSE planOf
     ELSE /\ state' = tripReducer(state, Action("SEARCH_SUCCESS", body))
          /\ ex' = [ex EXCEPT ![i].pc = "done",
                              ![i].body = body,
                              ![i].promise = "fulfilled",
                              ![i].acts = Append(@, "SEARCH_SUCCESS")]
          /\ last' = Last("success", i, body, NULL)
          /\ planOf' = i
  /\ UNCHANGED <<pdf, hasEventSource, nEvents, sinceClear>>

Next ==
  \/ \E request \in Requests : SearchTrip(request)
  \/ ClearResults
  \/ \E i \in Exchanges : \E m \in Messages : OnMessage(i, m)
  \/ \E i \in Exchanges : OnError(i)
  \/ \E i \in Exchanges : \E outcome \in FetchOutcomes : FetchSettled(i, outcome)
  \/ \E i \in Exchanges : \E body \in ErrorBodies : ErrorBodyRead(i, body)
  \/ \E i \in Exchanges : \E body \in OkBodies : OkBodyRead(i, body)

Spec == Init /\ [][Next]_vars

\* The liveness specification: the same handlers, with the requests and
\* stream messages drawn from one representative of each branch of
\* es.onmessage.  The transport eventually delivers a result message or a
\* connection error on every open channel, and every pending fetch and
\* body read settles.
LiveRequests == {"r1"}

LiveMessages ==
  { Malformed, Msg("Flights Found", NONE), Msg("complete", NONE),
    Msg("result", "resB") }

LiveNext ==
  \/ \E request \in LiveRequests : SearchTrip(request)
  \/ ClearResults
  \/ \E i \in Exchanges : \E m \in LiveMessages : OnMessage(i, m)
  \/ \E i \in Exchanges : OnError(i)
  \/ \E i \in Exchanges : \E outcome \in FetchOutcomes : FetchSettled(i, outcome)
  \/ \E i \in Exchanges : \E body \in ErrorBodies : ErrorBodyRead(i, body)
  \/ \E i \in Exchanges : \E body \in OkBodies : OkBodyRead(i, body)

Terminal(i) ==
  /\ i \in Exchanges
  /\ \/ OnError(i)
     \/ OnMessage(i, Msg("result", "resB"))

Settles(i) ==
  /\ i \in Exchanges
  /\ \/ \E outcome \in FetchOutcomes : FetchSettled(i, outcome)
     \/ \E body \in ErrorBodies : ErrorBodyRead(i, body)
     \/ \E body \in OkBodies : OkBodyRead(i, body)

Fairness ==
  \A i \in 1..MaxSearches : WF_vars(Terminal(i)) /\ WF_vars(Settles(i))

FairSpec == Init /\ [][LiveNext]_vars /\ Fairness

\* ----- utils/pdfExport.ts (exportToPDF) -----
\* Lengths are in tenths of a millimetre, so that the line height
\* fontSize * 0.4 = 4.8 is the integer 48.
PageHeight == 2970      \* doc.internal.pageSize.getHeight() of new jsPDF(): A4

TopMargin == 200        \* let yPosition = 20; yPosition = 20 after addPage

BottomMargin == 200     \* pageHeight - 20

AfterHeader == 400      \* yPosition = 40

LineHeight == 48        \* fontSize * 0.4 with addText's default fontSize 12

Absent == -1            \* an optional number that is undefined

\* if (x) on an optional number: undefined and 0 are both falsy.
Truthy(n) == n # Absent /\ n # 0

\* Flight, Stay, Activity, DayPlan values of the exported plan.  lines is
\* the number of lines doc.splitTextToSize gives for the entry's first
\* text: 1 for a short text, 30 or 60 for a long one.
FlightValues ==
  { [lines |-> 1, times |-> TRUE, stops |-> 0, est_price |-> 250],
    [lines |-> 60, times |-> FALSE, stops |-> Absent, est_price |-> 0],
    [lines |-> 1, times |-> FALSE, stops |-> 1, est_price |-> Absent] }

StayValues ==
  { [lines |-> 1, score |-> 8, est_price_per_night |-> 120, highlights |-> TRUE],
    [lines |-> 30, score |-> Absent, est_price_per_night |-> 0, highlights |-> FALSE],
    [lines |-> 1, score |-> 0, est_price_per_night |-> Absent, highlights |-> FALSE] }

NoActivity == [present |-> FALSE, lines |-> 0, duration |-> Absent,
               est_price |-> Absent, tags |-> FALSE]

\* duration is duration_hours in minutes.
Activity(lines, duration, price, tags) ==
  [present |-> TRUE, lines |-> lines, duration |-> duration,
   est_price |-> price, tags |-> tags]

DayValues ==
  { [morning |-> Activity(1, 30, 40, TRUE),
     afternoon |-> Activity(1, 60, 0, FALSE),
     evening |-> Activity(1, 120, Absent, FALSE)],
    [morning |-> Activity(30, Absent, 0, FALSE),
     afternoon |-> NoActivity,
     evening |-> Activity(30, 0, 15, TRUE)],
    [morning |-> NoActivity, afternoon |-> NoActivity, evening |-> NoActivity] }

\* lastSearch: null, a request without hobbies, a request with hobbies.
LastSearchValues == {NULL, "noHobbies", "hobbies"}

SeqsUpTo(S, n) == UNION {[1..m -> S] : m \in 0..n}

Plans ==
  [flights : SeqsUpTo(FlightValues, MaxFlights),
   stays : SeqsUpTo(StayValues, MaxStays),
   activities : SeqsUpTo(DayValues, MaxDays)]

\* One block of the document: the space asked of checkNewPage (NoCheck when
\* the code draws without asking), the texts drawn with addText, their
\* total number of lines, and what is added to yPosition besides.
NoCheck == -1

Block(label, requiredSpace, texts, lines, advance, price, duration) ==
  [label |-> label, req |-> requiredSpace, texts |-> texts, lines |-> lines,
   advance |-> advance, price |-> price, duration |-> duration]

Opt(cond, text) == IF cond THEN <<text>> ELSE <<>>

TitleBlock(label, requiredSpace) ==
  Block(label, requiredSpace, <<>>, 0, 150, Absent, Absent)

GapBlock(advance) == Block("gap", NoCheck, <<>>, 0, advance, Absent, Absent)

SummaryBlocks(lastSearch) ==
  IF lastSearch = NULL THEN <<>>
  ELSE <<TitleBlock("summaryTitle", NoCheck)>>
       \o [i \in 1..6 |->
             Block("summaryLine", NoCheck,
                   <<(<<"From", "To", "Dates", "Travelers", "Budget",
                        "Trip Type">>)[i]>>, 1, 0, Absent, Absent)]
       \o (IF lastSearch = "hobbies"
           THEN <<Block("summaryLine", NoCheck, <<"Interests">>, 1, 0, Absent,
                       Absent)>>
           ELSE <<>>)
       \o <<GapBlock(100)>>

FlightTexts(f) ==
  <<"Summary">>
  \o Opt(f.times, "Departure")
  \o Opt(f.stops # Absent, "Stops")
  \o Opt(Truthy(f.est_price), "Price")

FlightBlock(f) ==
  Block("flight", 250, FlightTexts(f), f.lines + Len(FlightTexts(f)) - 1, 50,
        f.est_price, Absent)

FlightBlocks_AlwaysTitle(flights) ==
  <<TitleBlock("flightsTitle", 300)>>
  \o [i \in 1..Len(flights) |-> FlightBlock(flights[i])]
  \o <<GapBlock(100)>>

FlightBlocks(flights) ==
  IF Len(flights) = 0 THEN <<>>
  ELSE <<TitleBlock("flightsTitle", 300)>>
       \o [i \in 1..Len(flights) |-> FlightBlock(flights[i])]
       \o <<GapBlock(100)>>

StayTexts(st) ==
  <<"Name", "Location">>
  \o Opt(Truthy(st.score), "Rating")
  \o Opt(Truthy(st.est_price_per_night), "Price")
  \o Opt(st.highlights, "Highlights")

StayBlock(st) ==
  Block("stay", 300, StayTexts(st), st.lines + Len(StayTexts(st)) - 1, 50,
        st.est_price_per_night, Absent)

StayBlocks(stays) ==
  IF Len(stays) = 0 THEN <<>>
  ELSE <<TitleBlock("staysTitle", 300)>>
       \o [i \in 1..Len(stays) |-> StayBlock(stays[i])]
       \o <<GapBlock(100)>>

\* The template literal ${duration_hours} for a duration of d minutes, d a
\* multiple of 30: "0.5", "1", "1.5", "2", ...
HoursText(d) ==
  IF d % 60 = 0 THEN ToString(d \div 60) ELSE ToString(d \div 60) \o ".5"

\* formatDuration(hours) of the results view, for a duration of d minutes.
formatDuration(d) ==
  IF ~Truthy(d) THEN "Duration not specified"
  ELSE IF d < 60 THEN ToString(d) \o " minutes"
  ELSE IF d = 60 THEN "1 hour"
  ELSE HoursText(d) \o " hours"

\* `Duration: ${activity.duration_hours} hours`
DurationLine(d) == "Duration: " \o HoursText(d) \o " hours"

ActivityTexts(a) ==
  <<"Title", "Location">>
  \o Opt(Truthy(a.duration), DurationLine(a.duration))
  \o Opt(Truthy(a.est_price), "Price")
  \o Opt(a.tags, "Tags")

SlotBlocks(a) ==
  IF a.present
  THEN <<Block("slot", 200, ActivityTexts(a),
               a.lines + Len(ActivityTexts(a)) - 1, 30, a.est_price,
               a.duration)>>
  ELSE <<>>

DayBlocks(day) ==
  <<Block("day", 400, <<"Day">>, 1, 50, Absent, Absent)>>
  \o SlotBlocks(day.morning) \o SlotBlocks(day.afternoon)
  \o SlotBlocks(day.evening)
  \o <<GapBlock(50)>>

RECURSIVE DaysBlocks(_)
DaysBlocks(days) ==
  IF Len(days) = 0 THEN <<>>
  ELSE DayBlocks(Head(days)) \o DaysBlocks(Tail(days))

ActivityBlocks(days) ==
  IF Len(days) = 0 THEN <<>>
  ELSE <<TitleBlock("itineraryTitle", 300)>> \o DaysBlocks(days)

\* The blocks exportToPDF draws after the header, in its order.
Blocks(plan, lastSearch) ==
  SummaryBlocks(lastSearch) \o FlightBlocks(plan.flights)
  \o StayBlocks(plan.stays) \o ActivityBlocks(plan.activities)

\* checkNewPage(requiredSpace) on the cursor c = [y, pages].
checkNewPage_Inverted(c, requiredSpace) ==
  IF c.y + requiredSpace < PageHeight - BottomMargin
  THEN [y |-> TopMargin, pages |-> c.pages + 1]
  ELSE c

checkNewPage(c, requiredSpace) ==
  IF c.y + requiredSpace > PageHeight - BottomMargin
  THEN [y |-> TopMargin, pages |-> c.pages + 1]
  ELSE c

\* addText: y + lines.length * fontSize * 0.4
addText(y, lines) == y + lines * LineHeight

\* The cursor where block b starts, and the cursor after it.
StartOf(c, b) == IF b.req = NoCheck THEN c ELSE checkNewPage(c, b.req)

Place(c, b) ==
  [y |-> addText(StartOf(c, b).y, b.lines) + b.advance,
   pages |-> StartOf(c, b).pages]

RECURSIVE Layout(_, _, _)
Layout(c, blocks, k) ==
  IF k > Len(blocks) THEN c
  ELSE LET next == Place(c, blocks[k]) IN
       \* the test evaluates the cursor before the next block is placed
       IF next.pages >= c.pages THEN Layout(next, blocks, k + 1) ELSE next

\* doc.getNumberOfPages() once every section has been drawn.
PageCount(plan, lastSearch) ==
  Layout([y |-> AfterHeader, pages |-> 1], Blocks(plan, lastSearch), 1).pages

\* exportToPDF(plan, lastSearch) is entered: new jsPDF() has one page.
PdfInit ==
  /\ state = initialState
  /\ hasEventSource = TRUE
  /\ ex = <<>>
  /\ nEvents = 0
  /\ sinceClear = FALSE
  /\ last = Last("init", 0, NONE, NULL)
  /\ planOf = 0
  /\ \E plan \in Plans : \E lastSearch \in LastSearchValues :
       pdf = [pc |-> "header", plan |-> plan, lastSearch |-> lastSearch,
              blocks |-> Blocks(plan, lastSearch), k |-> 1, y |-> TopMargin,
              pages |-> 1, out |-> <<>>, footers |-> <<>>, totalPages |-> 0]

\* The header band and title; yPosition = 40.
DrawHeader ==
  /\ pdf.pc = "header"
  /\ pdf' = [pdf EXCEPT !.pc = "layout", !.y = AfterHeader]
  /\ UNCHANGED ctlVars

\* The next block of the summary, flights, accommodations or itinerary.
DrawBlock ==
  /\ pdf.pc = "layout"
  /\ pdf.k <= Len(pdf.blocks)
  /\ LET c == [y |-> pdf.y, pages |-> pdf.pages]
         b == pdf.blocks[pdf.k]
         start == StartOf(c, b)
         end == Place(c, b) IN
     pdf' = [pdf EXCEPT !.k = @ + 1, !.y = end.y, !.pages = end.pages,
                        !.out = Append(@, [label |-> b.label, req |-> b.req,
                                           texts |-> b.texts, price |-> b.price,
                                           duration |-> b.duration,
                                           page |-> start.pages,
                                           y |-> start.y])]
  /\ UNCHANGED ctlVars

\* const totalPages = doc.getNumberOfPages(), before the footer loop.
BeginFooters ==
  /\ pdf.pc = "layout"
  /\ pdf.k > Len(pdf.blocks)
  /\ pdf' = [pdf EXCEPT !.pc = "footer", !.totalPages = pdf.pages]
  /\ UNCHANGED ctlVars

StampFooter_PageOfPage ==
  /\ pdf.pc = "footer"
  /\ Len(pdf.footers) < pdf.totalPages
  /\ pdf' = [pdf EXCEPT !.footers =
               Append(@, [page |-> Len(pdf.footers) + 1,
                          of |-> Len(pdf.footers) + 1])]
  /\ UNCHANGED ctlVars

\* One iteration of the footer loop: 'Page i of totalPages' on page i.
StampFooter ==
  /\ pdf.pc = "footer"
  /\ Len(pdf.footers) < pdf.totalPages
  /\ pdf' = [pdf EXCEPT !.footers =
               Append(@, [page |-> Len(pdf.footers) + 1, of |-> pdf.totalPages])]
  /\ UNCHANGED ctlVars

\* doc.save(fileName)
Save ==
  /\ pdf.pc = "footer"
  /\ Len(pdf.footers) = pdf.totalPages
  /\ pdf' = [pdf EXCEPT !.pc = "saved"]
  /\ UNCHANGED ctlVars

PdfNext == DrawHeader \/ DrawBlock \/ BeginFooters \/ StampFooter \/ Save

PdfSpec == PdfInit /\ [][PdfNext]_vars

\* ----- properties -----
\* Handlers that deliver something an exchange produced.
EventKinds == {"progress", "success", "error", "dropped", "response"}

\* C1: every event that a superseded exchange delivers after a newer
\* searchTrip is discarded, i.e. the step that delivers it leaves the
\* session state exactly as it was.
C1_SupersededEventsDiscarded ==
  [][(last'.kind \in EventKinds /\ last'.ex < Len(ex')) => state' = state]_vars

\* C2: in every reachable state at most one transport resource (open
\* EventSource or pending POST) exists.
C2_AtMostOneResource ==
  Cardinality({i \in Exchanges : InFlight(i)}) <= 1

\* C3: after clearResults and until the next searchTrip no exchange is in
\* flight, and nothing a cancelled exchange delivers changes the state.
C3_ClearCancelsSearch ==
  /\ [](sinceClear => \A i \in Exchanges : ~InFlight(i))
  /\ [][(sinceClear' /\ last'.kind \in EventKinds) => state' = state]_vars

\* C4: in every reachable state isLoading = true implies tripPlan = null
\* and error = null.
C4_LoadingImpliesNoResult ==
  state.isLoading => (state.tripPlan = NULL /\ state.error = NULL)

\* C5: in every reachable state tripPlan and error are not both non-null.
C5_PlanAndErrorExclusive ==
  ~(state.tripPlan # NULL /\ state.error # NULL)

\* C5 witness: an error is shown although some exchange delivered a plan.
C5_Witness ==
  /\ state.error # NULL
  /\ \E i \in Exchanges : ex[i].pc = "resolved"

\* C6: the state right after SEARCH_START(r) is Searching(r, logs = []):
\* loading, no plan, no error, empty logs.
C6_StartDiscardsPrevious ==
  last.kind = "searchTrip" =>
    state = [isLoading |-> TRUE, tripPlan |-> NULL, logs |-> <<>>,
             error |-> NULL, lastSearch |-> ex[last.ex].req]

\* C7: the state right after clearResults() is Idle: not loading, no plan,
\* no error, empty logs, lastSearch = null.
C7_ClearYieldsIdle ==
  last.kind = "clearResults" => state = initialState

\* C8 as stated: right after the success of an exchange whose progress
\* messages were p1..pn the state is Succeeded with the delivered plan and
\* logs = [p1, ..., pn].
C8_LogsAreProgressPayloads ==
  last.kind = "success" =>
    /\ state.isLoading = FALSE
    /\ state.tripPlan = ResultPlan(last.result)
    /\ state.error = NULL
    /\ state.logs = ex[last.ex].recv

\* C8 amended: right after the success of an exchange the state is
\* Succeeded with the delivered plan, and logs are the logs carried by the
\* success payload, whatever progress preceded it.
C8_LogsAreResultLogs ==
  last.kind = "success" =>
    /\ state.isLoading = FALSE
    /\ state.tripPlan = ResultPlan(last.result)
    /\ state.error = NULL
    /\ state.logs = ResultLogs(last.result)

\* C8 witness: a success has just been applied after at least one progress
\* message of the same exchange, and the payload's logs differ from them.
C8_Witness ==
  /\ last.kind = "success"
  /\ Len(ex[last.ex].recv) >= 1
  /\ ResultLogs(last.result) # ex[last.ex].recv

\* C9: right after the failure of an exchange with message m the state is
\* Failed: not loading, error = m, no plan, logs empty, however many
\* progress messages preceded it.
C9_FailureResetsLogs ==
  last.kind = "error" =>
    /\ state.isLoading = FALSE
    /\ state.error = last.error
    /\ state.tripPlan = NULL
    /\ state.logs = <<>>

\* C9 witness: a failure has just been applied after at least one progress
\* message of the same exchange.
C9_Witness ==
  /\ last.kind = "error"
  /\ Len(ex[last.ex].recv) >= 1

\* C10: right after searchTrip(r) the state is loading with error = null
\* and lastSearch = r, and no event of the new exchange has been applied.
C10_StartAppliedFirst ==
  last.kind = "searchTrip" =>
    /\ state.isLoading = TRUE
    /\ state.error = NULL
    /\ state.lastSearch = ex[last.ex].req
    /\ ex[last.ex].recv = <<>>
    /\ ex[last.ex].pc \in {"open", "fetching"}

\* C10 witness: searchTrip has just been called with a request other than
\* the previous one, after an earlier exchange had failed.
C10_Witness ==
  /\ last.kind = "searchTrip"
  /\ \E i \in Exchanges :
       /\ i < last.ex
       /\ ex[i].pc \in {"rejected", "done"}
       /\ ex[i].req # ex[last.ex].req

\* C11: at every moment while the current streaming exchange is loading,
\* logs is exactly the sequence of progress payloads that exchange has
\* received so far, in arrival order.
C11_LogsAreReceivedInOrder ==
  (Len(ex) > 0 /\ ex[Len(ex)].pc = "open" /\ state.isLoading /\ ~sinceClear)
    => state.logs = ex[Len(ex)].recv

\* C12: whenever tripPlan is non-null, lastSearch is non-null and is the
\* request of the exchange that delivered that plan.
C12_PlanBelongsToLastSearch ==
  state.tripPlan # NULL =>
    /\ planOf \in Exchanges
    /\ state.lastSearch # NULL
    /\ state.lastSearch = ex[planOf].req

\* C13: the promise searchTrip returns never rejects, and right after any
\* transport failure the state is Failed with that failure's message and
\* the promise of the failed call is fulfilled.
C13_FailuresBecomeState ==
  /\ \A i \in Exchanges : ex[i].promise # "rejected"
  /\ last.kind = "error" =>
       /\ state.error # NULL
       /\ state.error = last.error
       /\ state.isLoading = FALSE
       /\ ex[last.ex].promise = "fulfilled"

\* C13 witness: each kind of transport failure has been the last step of
\* some behaviour; this one is the unreadable body of a response.
C13_Witness ==
  /\ last.kind = "error"
  /\ last.error = UnreadableBody
  /\ \E i \in Exchanges : i # last.ex /\ ex[i].promise = "fulfilled"

\* C14: right after a non-2xx fallback response the state is Failed(m)
\* with m the detail string of the body when it carries one and the
\* generic message when it does not.
C14_DetailElseGeneric ==
  (last.kind = "error" /\ ex[last.ex].ok = "notok") =>
    /\ state.isLoading = FALSE
    /\ state.error = IF ex[last.ex].body \in {"unreadable", NONE, ""}
                     THEN GenericFailure
                     ELSE ex[last.ex].body

\* C15: a transport resource is open only for the exchange of the latest
\* searchTrip and only while no clearResults has cancelled it; every ended
\* or cancelled exchange has its resource closed.
C15_ResourceReleased ==
  \A i \in Exchanges : InFlight(i) => (i = Len(ex) /\ ~sinceClear)

\* C16: under fair delivery every searchTrip call eventually completes,
\* a loading session eventually stops loading, and a call's promise is
\* fulfilled only once its terminal action has been applied.
C16_EverySearchCompletes ==
  /\ \A i \in 1..MaxSearches :
       [](i \in Exchanges => <>(i \in Exchanges /\ ex[i].promise = "fulfilled"))
  /\ (state.isLoading ~> ~state.isLoading)
  /\ [](\A i \in Exchanges :
          ex[i].promise = "fulfilled" =>
            /\ ex[i].acts # <<>>
            /\ ex[i].acts[Len(ex[i].acts)] \in {"SEARCH_SUCCESS", "SEARCH_ERROR"})

\* C16 witness: a streaming call that received progress has completed and
\* the session is no longer loading.
C16_Witness ==
  /\ ~state.isLoading
  /\ \E i \in Exchanges :
       /\ ex[i].promise = "fulfilled"
       /\ Len(ex[i].recv) >= 1

\* C17: lastSearch changes only in a searchTrip step (SEARCH_START) or a
\* clearResults step (CLEAR_RESULTS); progress, success and error steps
\* leave it unchanged.
C17_LastSearchFrame ==
  [][state'.lastSearch # state.lastSearch
       => last'.kind \in {"searchTrip", "clearResults"}]_vars

\* C17 witness: a success or an error has been applied and lastSearch is
\* still the request of the search.
C17_Witness ==
  /\ last.kind \in {"success", "error"}
  /\ state.lastSearch = ex[last.ex].req

\* C18 as stated: in fallback mode a pending exchange has applied nothing
\* and a finished one exactly one action, SEARCH_SUCCESS for a success
\* status and SEARCH_ERROR otherwise.
C18_OneActionByStatus ==
  ~hasEventSource =>
    \A i \in Exchanges :
      ex[i].acts = IF InFlight(i) THEN <<>>
                   ELSE IF ex[i].ok = "ok" THEN <<"SEARCH_SUCCESS">>
                   ELSE <<"SEARCH_ERROR">>

\* C18 amended: in fallback mode a pending exchange has applied nothing
\* and a finished one exactly one action, SEARCH_SUCCESS for a success
\* status whose body could be read and SEARCH_ERROR otherwise.
C18_OneActionByStatusAndBody ==
  ~hasEventSource =>
    \A i \in Exchanges :
      ex[i].acts = IF InFlight(i) THEN <<>>
                   ELSE IF ex[i].ok = "ok" /\ ex[i].body # "unreadable"
                   THEN <<"SEARCH_SUCCESS">>
                   ELSE <<"SEARCH_ERROR">>

\* C18 witness: a fallback exchange with a success status has finished
\* after its single SEARCH_SUCCESS.
C18_Witness ==
  /\ ~hasEventSource
  /\ \E i \in Exchanges :
       /\ ex[i].pc = "done"
       /\ ex[i].ok = "ok"
       /\ ex[i].acts = <<"SEARCH_SUCCESS">>

\* The plans that have one entry more than plan in one of the three lists,
\* inserted at any position.
InsertAt(seq, pos, e) ==
  SubSeq(seq, 1, pos - 1) \o <<e>> \o SubSeq(seq, pos, Len(seq))

OneMoreEntry(plan) ==
  {[plan EXCEPT !.flights = InsertAt(@, pos, f)] :
     pos \in 1..(Len(plan.flights) + 1), f \in FlightValues}
  \cup {[plan EXCEPT !.stays = InsertAt(@, pos, st)] :
          pos \in 1..(Len(plan.stays) + 1), st \in StayValues}
  \cup {[plan EXCEPT !.activities = InsertAt(@, pos, d)] :
          pos \in 1..(Len(plan.activities) + 1), d \in DayValues}

\* C19: the page count of the saved document is not larger than the page
\* count of the document of any plan with one more flight, stay or day.
C19_PagesNonDecreasing ==
  pdf.pc = "saved" =>
    /\ pdf.pages = PageCount(pdf.plan, pdf.lastSearch)
    /\ \A q \in OneMoreEntry(pdf.plan) :
         PageCount(q, pdf.lastSearch) >= pdf.pages

\* C19 witness: a saved document of several pages for which one added
\* entry gives more pages and another added entry gives the same number.
C19_Witness ==
  /\ pdf.pc = "saved"
  /\ pdf.pages >= 2
  /\ \E q \in OneMoreEntry(pdf.plan) :
       PageCount(q, pdf.lastSearch) > pdf.pages
  /\ \E q \in OneMoreEntry(pdf.plan) :
       PageCount(q, pdf.lastSearch) = pdf.pages

\* C20: a flight, stay or activity block has a price line exactly when its
\* price field is present, a price of 0 included.
C20_ZeroPriceRendered ==
  \A j \in 1..Len(pdf.out) :
    pdf.out[j].label \in {"flight", "stay", "slot"} =>
      ((\E t \in 1..Len(pdf.out[j].texts) : pdf.out[j].texts[t] = "Price")
         <=> pdf.out[j].price # Absent)

\* The four panels of AppContent and the conditions under which each renders.
ShowLoading == state.isLoading
ShowError == state.error # NULL
ShowResults == state.tripPlan # NULL /\ ~state.isLoading
ShowEmpty == state.tripPlan = NULL /\ ~state.isLoading /\ state.error = NULL
PanelsShown ==
  {p \in {"loading", "error", "results", "empty"} :
     \/ p = "loading" /\ ShowLoading
     \/ p = "error" /\ ShowError
     \/ p = "results" /\ ShowResults
     \/ p = "empty" /\ ShowEmpty}

Terminals == {"SEARCH_SUCCESS", "SEARCH_ERROR"}
TerminalAt(i) == {k \in 1..Len(ex[i].acts) : ex[i].acts[k] \in Terminals}

\* C24: every streaming exchange applies at most one terminal action
\* (SEARCH_SUCCESS or SEARCH_ERROR), that action is the last one the exchange
\* applies and it leaves the channel closed; an exchange ended by a connection
\* error applied exactly one SEARCH_ERROR.
C24_SingleTerminalAction ==
  hasEventSource =>
    \A i \in Exchanges :
      /\ Cardinality(TerminalAt(i)) <= 1
      /\ TerminalAt(i) # {} =>
           /\ TerminalAt(i) = {Len(ex[i].acts)}
           /\ ex[i].pc \in {"resolved", "rejected"}
      /\ ex[i].pc = "rejected" =>
           /\ TerminalAt(i) # {}
           /\ ex[i].acts[Len(ex[i].acts)] = "SEARCH_ERROR"
      /\ ex[i].pc = "resolved" =>
           /\ TerminalAt(i) # {}
           /\ ex[i].acts[Len(ex[i].acts)] = "SEARCH_SUCCESS"

\* A connection error ended an exchange that had already applied progress.
C24_Witness ==
  /\ hasEventSource
  /\ \E i \in Exchanges : ex[i].pc = "rejected" /\ Len(ex[i].recv) >= 1
  /\ last.kind = "error"

\* A parsed message with no stage field, or with stage 'result' and no result.
Shapeless(m) ==
  /\ m.shape = "json"
  /\ m.stage = NONE \/ (m.stage = "result" /\ m.result = NONE)

C26_MalformedIgnored ==
  [][last'.msg = Malformed =>
       /\ state' = state
       /\ ex' = ex
       /\ ex'[last'.ex].pc = "open"]_vars

\* An unparseable message arrived after a progress message and left the
\* session loading without error.
C26_Witness ==
  /\ last.msg = Malformed
  /\ state.isLoading /\ state.error = NULL
  /\ Len(ex[last.ex].recv) >= 1
  /\ ex[last.ex].pc = "open"

\* C27: a 'complete' message leaves the whole state and the channel as they
\* were, and in a streaming session loading ends only with a result message
\* that carries a payload or with a connection error.
C27_CompleteIsNoOp ==
  [][/\ last'.msg = Msg("complete", NONE) =>
          state' = state /\ ex' = ex /\ ex'[last'.ex].pc = "open"
     /\ (hasEventSource /\ state.isLoading /\ ~state'.isLoading) =>
          \/ /\ last'.kind = "success"
             /\ last'.msg.stage = "result" /\ last'.msg.result # NONE
          \/ /\ last'.kind = "error"
             /\ last'.error = StreamingConnectionError]_vars

\* A 'complete' message arrived during a search that had shown progress.
C27_Witness ==
  /\ last.msg = Msg("complete", NONE)
  /\ state.isLoading
  /\ Len(state.logs) >= 1
  /\ ex[last.ex].pc = "open"

\* C28: applying SEARCH_PROGRESS leaves isLoading as it was, in every state.
C28_ProgressKeepsLoading ==
  [][last'.kind = "progress" => state'.isLoading = state.isLoading]_vars

\* C30: exactly one of the loading, error, results and empty panels renders.
C30_ExactlyOnePanel ==
  Cardinality(PanelsShown) = 1

Range(seq) == {seq[j] : j \in 1..Len(seq)}

\* C21: every activity duration in the document reads as the results view
\* formats it: minutes below one hour, '1 hour' for one hour, hours above.
C21_DurationUnits ==
  \A j \in 1..Len(pdf.out) :
    (pdf.out[j].label = "slot" /\ pdf.out[j].duration > 0) =>
      ("Duration: " \o formatDuration(pdf.out[j].duration))
        \in Range(pdf.out[j].texts)

\* C22: once a footer is stamped the page count no longer changes, and the
\* saved document has on every page i the footer 'Page i of N', N being the
\* final number of pages.
C22_FootersSecondPass ==
  /\ pdf.footers # <<>> =>
       /\ pdf.pc \in {"footer", "saved"}
       /\ pdf.k > Len(pdf.blocks)
       /\ pdf.pages = pdf.totalPages
  /\ pdf.pc = "saved" =>
       /\ Len(pdf.footers) = pdf.pages
       /\ \A i \in 1..pdf.pages :
            pdf.footers[i] = [page |-> i, of |-> pdf.pages]

\* A saved document of several pages.
C22_Witness ==
  /\ pdf.pc = "saved"
  /\ pdf.pages >= 2
  /\ Len(pdf.footers) = pdf.pages

SectionTitles ==
  <<"summaryTitle", "flightsTitle", "staysTitle", "itineraryTitle">>

\* The section titles drawn so far, in drawing order.
TitlesDrawn ==
  LET titles == SelectSeq(pdf.out, LAMBDA b : b.label \in Range(SectionTitles))
  IN [j \in 1..Len(titles) |-> titles[j].label]

EntriesDrawn(label) ==
  Cardinality({j \in 1..Len(pdf.out) : pdf.out[j].label = label})

\* C23: the export has at least one page and runs to doc.save for every
\* input; nothing is drawn before the header; the summary is drawn iff a
\* request is supplied, and the flights, accommodations and itinerary sections
\* iff their lists are non-empty, in that order, one entry per list element.
C23_SectionsByInput ==
  /\ pdf.pages >= 1
  /\ pdf.pc = "header" => pdf.out = <<>>
  /\ pdf.pc # "saved" => ENABLED PdfNext
  /\ pdf.pc \in {"footer", "saved"} =>
       /\ TitlesDrawn =
            Opt(pdf.lastSearch # NULL, SectionTitles[1])
            \o Opt(Len(pdf.plan.flights) > 0, SectionTitles[2])
            \o Opt(Len(pdf.plan.stays) > 0, SectionTitles[3])
            \o Opt(Len(pdf.plan.activities) > 0, SectionTitles[4])
       /\ EntriesDrawn("flight") = Len(pdf.plan.flights)
       /\ EntriesDrawn("stay") = Len(pdf.plan.stays)
       /\ EntriesDrawn("day") = Len(pdf.plan.activities)

\* The empty plan without a request was saved as a single page with no
\* section.
C23_Witness ==
  /\ pdf.pc = "saved"
  /\ pdf.lastSearch = NULL
  /\ pdf.plan = [flights |-> <<>>, stays |-> <<>>, activities |-> <<>>]
  /\ pdf.out = <<>>
  /\ pdf.footers = <<[page |-> 1, of |-> 1]>>

LogicalBlocks == {"summaryLine", "flight", "stay", "day", "slot"}

\* C29: every summary line, flight entry, stay entry, day header and time
\* slot is drawn after a check of its estimated height, and so starts with
\* cursor + estimate <= pageHeight - 20.
C29_EveryBlockChecked ==
  \A j \in 1..Len(pdf.out) :
    pdf.out[j].label \in LogicalBlocks =>
      /\ pdf.out[j].req # NoCheck
      /\ pdf.out[j].y + pdf.out[j].req <= PageHeight - BottomMargin

====
